---- MODULE Spec2Model ----
(***************************************************************************)
(* A state-machine model of the C tokenizer of mwparserfromhell            *)
(* (mwparserfromhell/parser/tokenizer.c).                                  *)
(*                                                                         *)
(* The C program is a recursive-descent scanner.  Its recursion is made    *)
(* explicit here: `calls` is the chain of suspended callers of             *)
(* Tokenizer_parse, `pc` says whether the innermost Tokenizer_parse is at  *)
(* the top of its dispatch loop or has just returned, and `ret` is the     *)
(* value it returned.  Every action is one iteration of the dispatch loop  *)
(* (with the handler it calls, up to the next recursive Tokenizer_parse)   *)
(* or the continuation of a construct parser after its Tokenizer_parse     *)
(* returned.                                                               *)
(*                                                                         *)
(* Characters are one-character strings, a text is a sequence of them,     *)
(* the end-of-input sentinel EMPTY is the empty string.  A context is the  *)
(* set of the flags whose bit is set, a mask is a set of flags.            *)
(***************************************************************************)
EXTENDS Integers, Sequences, FiniteSets, TLC

VARIABLES
    self,          \* the Tokenizer struct: text, length, head, global, topstack
    route_state,   \* the static route flag read by BAD_ROUTE
    fault,         \* "none", or the undefined operation the run ended in
    calls,         \* suspended callers of Tokenizer_parse, innermost last
    ret,           \* value returned by the Tokenizer_parse that just returned
    pc,            \* "idle", "loop", "return", "done", "fault"
    ncalls,        \* number of tokenize calls started on this instance
    results,       \* values returned by the completed tokenize calls
    other,         \* a second Tokenizer instance, of another thread, not running
    entry          \* history: the frame stack each call in calls found, before its push

vars == <<self, route_state, fault, calls, ret, pc, ncalls, results, other, entry>>

-----------------------------------------------------------------------------
(* Bounds of the model *)

\* longest text of the exhaustive input set
MaxLen == 4
\* most parameters of a generated template
MaxParams == 2
\* longest run of "=" of a generated heading line
MaxRun == 7
\* most tokenize calls on one instance (specification SpecReuse)
MaxCalls == 2

-----------------------------------------------------------------------------
(* Context flags (tokenizer.h): a context is a set of flags *)

LC_TEMPLATE_NAME == {"TEMPLATE_NAME"}
LC_TEMPLATE_PARAM_KEY == {"TEMPLATE_PARAM_KEY"}
LC_TEMPLATE_PARAM_VALUE == {"TEMPLATE_PARAM_VALUE"}
LC_TEMPLATE == LC_TEMPLATE_NAME \cup LC_TEMPLATE_PARAM_KEY \cup LC_TEMPLATE_PARAM_VALUE
LC_ARGUMENT_NAME == {"ARGUMENT_NAME"}
LC_ARGUMENT_DEFAULT == {"ARGUMENT_DEFAULT"}
LC_ARGUMENT == LC_ARGUMENT_NAME \cup LC_ARGUMENT_DEFAULT
LC_WIKILINK_TITLE == {"WIKILINK_TITLE"}
LC_WIKILINK_TEXT == {"WIKILINK_TEXT"}
LC_WIKILINK == LC_WIKILINK_TITLE \cup LC_WIKILINK_TEXT
\* LC_HEADING_LEVEL_1 << (k - 1)
HeadingLevelFlag == <<"HEADING_LEVEL_1", "HEADING_LEVEL_2", "HEADING_LEVEL_3",
                      "HEADING_LEVEL_4", "HEADING_LEVEL_5", "HEADING_LEVEL_6">>
LC_HEADING_LEVEL(k) == {HeadingLevelFlag[k]}
LC_HEADING == UNION {LC_HEADING_LEVEL(k) : k \in 1..6}
LC_COMMENT == {"COMMENT"}
LC_HAS_TEXT == {"HAS_TEXT"}
LC_FAIL_ON_TEXT == {"FAIL_ON_TEXT"}
LC_FAIL_NEXT == {"FAIL_NEXT"}
LC_FAIL_ON_LBRACE == {"FAIL_ON_LBRACE"}
LC_FAIL_ON_RBRACE == {"FAIL_ON_RBRACE"}
GL_HEADING == {"GL_HEADING"}

\* context & mask
Has(context, mask) == context \cap mask # {}
\* context ^ mask
Xor(context, mask) == (context \ mask) \cup (mask \ context)

\* variant: the end of input does not fail a template
MutFailContexts == LC_ARGUMENT \cup LC_WIKILINK \cup LC_HEADING \cup LC_COMMENT

\* static fail_contexts, unsafe_contexts of Tokenizer_parse
fail_contexts == LC_TEMPLATE \cup LC_ARGUMENT \cup LC_WIKILINK \cup LC_HEADING \cup LC_COMMENT
unsafe_contexts == LC_TEMPLATE_NAME \cup LC_WIKILINK_TITLE \cup LC_TEMPLATE_PARAM_KEY \cup LC_ARGUMENT_NAME

\* the end-of-input sentinel, whose first code unit is the NUL that ends it
EMPTY == ""
NL == "\n"
MARKERS == {"{", "}", "[", "]", "<", ">", "|", "=", "&", "#", "*", ";", ":",
            "/", "-", "!", NL, EMPTY}
\* Py_UNICODE_ISSPACE on the characters of the model
Py_UNICODE_ISSPACE(data) == data \in {" ", NL}

-----------------------------------------------------------------------------
(* Tokens and return values *)

Token(type) == [type |-> type, text |-> <<>>, level |-> 0]
TextToken(text) == [type |-> "Text", text |-> text, level |-> 0]
HeadingStartToken(level) == [type |-> "HeadingStart", text |-> <<>>, level |-> level]

NULL == [kind |-> "NULL", tokens |-> <<>>, level |-> 0]
ListValue(tokens) == [kind |-> "list", tokens |-> tokens, level |-> 0]
\* HeadingData {title, level}
HeadingData(title, level) == [kind |-> "heading", tokens |-> title, level |-> level]

-----------------------------------------------------------------------------
(* The machine the operations work on: the Tokenizer struct, the static    *)
(* route flag, and the undefined operation met so far, if any.  An         *)
(* operation on a machine that already met one does nothing: the run has   *)
(* ended there.                                                            *)

Machine == [self |-> self, route_state |-> route_state, fault |-> fault]

Faulted(m) == m.fault # "none"
\* self->topstack is NULL and is dereferenced
NullTop(m) == [m EXCEPT !.fault = "null_topstack"]
\* every stack operation reads self->topstack-> first: Op applies with a frame
OnTop(m, Op(_)) ==
    IF Faulted(m) THEN m
    ELSE IF m.self.topstack = <<>> THEN NullTop(m)
    ELSE Op(m)

Top(m) == Head(m.self.topstack)
SetTop(m, frame) == [m EXCEPT !.self.topstack = <<frame>> \o Tail(@)]
TopContext(m) == Top(m).context
SetContext(m, context) == SetTop(m, [Top(m) EXCEPT !.context = context])

\* A textbuffer is the list of its chunks, newest first; a chunk is data[0..size)
TEXTBUFFER_BLOCKSIZE == 2
Textbuffer_new == << <<>> >>

RECURSIVE RenderRest(_, _)
RenderRest(next, result) ==
    IF next = <<>> THEN result
    ELSE RenderRest(Tail(next), Head(next) \o result)
\* variant: the chunks behind the current one are not rendered
MutTextbufferRender(buffer) == Head(buffer)

Textbuffer_render(buffer) == RenderRest(Tail(buffer), Head(buffer))

\* buffer->size == 0 && !buffer->next
TextbufferIsEmpty(buffer) == Len(Head(buffer)) = 0 /\ Len(buffer) = 1

Tokenizer_push(m, context) ==
    IF Faulted(m) THEN m
    ELSE [m EXCEPT !.self.topstack =
            <<[stack |-> <<>>, context |-> context, textbuffer |-> Textbuffer_new]>> \o @]

\* variant: the emptiness test of push_textbuffer left out
MutPushTextbuffer(m) ==
    OnTop(m, LAMBDA x :
        SetTop(x, [Top(x) EXCEPT
            !.stack = Append(@, TextToken(Textbuffer_render(Top(x).textbuffer))),
            !.textbuffer = Textbuffer_new]))

Tokenizer_push_textbuffer(m) ==
    OnTop(m, LAMBDA x :
        IF TextbufferIsEmpty(Top(x).textbuffer) THEN x
        ELSE SetTop(x, [Top(x) EXCEPT
                !.stack = Append(@, TextToken(Textbuffer_render(Top(x).textbuffer))),
                !.textbuffer = Textbuffer_new]))

Tokenizer_delete_top_of_stack(m) ==
    OnTop(m, LAMBDA x : [x EXCEPT !.self.topstack = Tail(@)])

\* the machine after the call and the stack returned
Tokenizer_pop(m) ==
    LET p == Tokenizer_push_textbuffer(m) IN
    IF Faulted(p) THEN [m |-> p, stack |-> NULL]
    ELSE [m |-> Tokenizer_delete_top_of_stack(p), stack |-> ListValue(Top(p).stack)]

Tokenizer_pop_keeping_context(m) ==
    LET p == Tokenizer_push_textbuffer(m) IN
    IF Faulted(p) THEN [m |-> p, stack |-> NULL]
    ELSE LET d == Tokenizer_delete_top_of_stack(p) IN
         [m |-> OnTop(d, LAMBDA x : SetContext(x, TopContext(p))),
          stack |-> ListValue(Top(p).stack)]

\* FAIL_ROUTE() after the pop
Tokenizer_fail_route(m) ==
    LET p == Tokenizer_pop(m).m IN
    IF Faulted(p) THEN p ELSE [p EXCEPT !.route_state = 1]

\* RESET_ROUTE()
RESET_ROUTE(m) == IF Faulted(m) THEN m ELSE [m EXCEPT !.route_state = 0]
BAD_ROUTE(m) == m.route_state = 1

Tokenizer_write(m, token) ==
    OnTop(Tokenizer_push_textbuffer(m), LAMBDA x :
        SetTop(x, [Top(x) EXCEPT !.stack = Append(@, token)]))

\* variant: write_first appends like write
MutWriteFirst(m, token) ==
    OnTop(Tokenizer_push_textbuffer(m), LAMBDA x :
        SetTop(x, [Top(x) EXCEPT !.stack = Append(@, token)]))

Tokenizer_write_first(m, token) ==
    OnTop(Tokenizer_push_textbuffer(m), LAMBDA x :
        SetTop(x, [Top(x) EXCEPT !.stack = <<token>> \o @]))

Tokenizer_write_text(m, text) ==
    OnTop(m, LAMBDA x :
        LET buf == Top(x).textbuffer IN
        SetTop(x, [Top(x) EXCEPT !.textbuffer =
            IF Len(Head(buf)) = TEXTBUFFER_BLOCKSIZE
            THEN <<<<text>>>> \o buf
            ELSE <<Append(Head(buf), text)>> \o Tail(buf)]))

\* write_text of every character of a NUL-terminated array, in order
RECURSIVE WriteChars(_, _)
WriteChars(m, text) ==
    IF text = <<>> THEN m
    ELSE WriteChars(Tokenizer_write_text(m, Head(text)), Tail(text))

\* tokenlist is a list of tokens
Tokenizer_write_all(m, tokenlist) ==
    OnTop(m, LAMBDA x :
        LET buffer == Top(x).textbuffer
            merge == /\ Len(tokenlist) > 0
                     /\ tokenlist[1].type = "Text"
            pushed == merge
            \* the first token's text attribute becomes left + right
            merged == <<TextToken(Textbuffer_render(buffer) \o tokenlist[1].text)>>
                      \o Tail(tokenlist)
        IN IF merge /\ ~TextbufferIsEmpty(buffer)
           THEN SetTop(x, [Top(x) EXCEPT !.stack = @ \o merged,
                                         !.textbuffer = Textbuffer_new])
           ELSE LET y == IF pushed THEN x ELSE Tokenizer_push_textbuffer(x) IN
                SetTop(y, [Top(y) EXCEPT !.stack = @ \o tokenlist]))

SetHead(m, head) == IF Faulted(m) THEN m ELSE [m EXCEPT !.self.head = head]

\* text is a sequence of characters
Tokenizer_write_text_then_stack(m, text) ==
    LET p == Tokenizer_pop(m)
        w == WriteChars(p.m, text)
        a == IF p.stack.kind = "list" /\ Len(p.stack.tokens) > 0
             THEN Tokenizer_write_all(w, p.stack.tokens)
             ELSE w
    IN SetHead(a, a.self.head - 1)

Tokenizer_read(m, delta) ==
    LET index == m.self.head + delta IN
    IF index >= m.self.length THEN EMPTY ELSE m.self.text[index + 1]

Tokenizer_read_backwards(m, delta) ==
    IF delta > m.self.head THEN EMPTY
    ELSE m.self.text[m.self.head - delta + 1]

-----------------------------------------------------------------------------
(* Results of a step: the machine, where control goes, the caller record   *)
(* to suspend (when the step calls Tokenizer_parse) and the value returned *)
(* (when the step makes the innermost Tokenizer_parse return).             *)

Caller(fn, reset, count, level, fallback) ==
    [fn |-> fn, reset |-> reset, count |-> count, level |-> level, fallback |-> fallback]

\* the step calls Tokenizer_parse(context), whose first act is the push
Enter(m, caller, context) ==
    [m |-> Tokenizer_push(m, context), pc |-> "loop", push |-> <<caller>>, ret |-> NULL]
\* the handler returned to the dispatch loop, which ends its iteration: head++
Resume(m) ==
    [m |-> SetHead(m, m.self.head + 1), pc |-> "loop", push |-> <<>>, ret |-> NULL]
\* the `continue` of the dispatch loop
Continue(m) == [m |-> m, pc |-> "loop", push |-> <<>>, ret |-> NULL]
\* the innermost Tokenizer_parse returns value
Return(m, value) == [m |-> m, pc |-> "return", push |-> <<>>, ret |-> value]

OrContext(m, mask) == OnTop(m, LAMBDA x : SetContext(x, TopContext(x) \cup mask))
XorContext(m, mask) == OnTop(m, LAMBDA x : SetContext(x, Xor(TopContext(x), mask)))
\* if (self->topstack->context & LC_FAIL_NEXT) self->topstack->context ^= LC_FAIL_NEXT
ClearFailNext(m) ==
    OnTop(m, LAMBDA x :
        IF Has(TopContext(x), LC_FAIL_NEXT) THEN XorContext(x, LC_FAIL_NEXT) ELSE x)

\* a run of n copies of ch
Run(ch, n) == [i \in 1..n |-> ch]

\* the number of consecutive ch from index head on (0-based)
RECURSIVE RunLength(_, _, _)
RunLength(m, ch, delta) ==
    IF Tokenizer_read(m, delta) = ch /\ ch # EMPTY
    THEN 1 + RunLength(m, ch, delta + 1) ELSE 0

-----------------------------------------------------------------------------
(* Safety verifier *)

\* variant: a "{" read while FAIL_ON_LBRACE is set, a "}" read while
\* FAIL_ON_RBRACE is set, leaves the context as it is
MutVerifySafe(m, context, data) ==
    IF Has(context, LC_FAIL_NEXT) THEN Tokenizer_fail_route(m)
    ELSE
    LET stay(x) == [m |-> x, returned |-> FALSE]
        leave(x) == [m |-> x, returned |-> TRUE]
        a == IF Has(context, LC_TEMPLATE_NAME \cup LC_WIKILINK_TITLE)
             THEN IF data \in {"{", "}", "[", "]"}
                  THEN leave(OrContext(m, LC_FAIL_NEXT))
                  ELSE stay(m)
             ELSE IF Has(context, LC_TEMPLATE_PARAM_KEY \cup LC_ARGUMENT_NAME)
             THEN IF Has(context, LC_FAIL_ON_LBRACE)
                  THEN IF data = "{"
                       THEN leave(m)
                       ELSE stay(XorContext(m, LC_FAIL_ON_LBRACE))
                  ELSE IF Has(context, LC_FAIL_ON_RBRACE)
                  THEN IF data = "}"
                       THEN leave(m)
                       ELSE stay(XorContext(m, LC_FAIL_ON_RBRACE))
                  ELSE IF data = "{" THEN stay(OrContext(m, LC_FAIL_ON_LBRACE))
                  ELSE IF data = "}" THEN stay(OrContext(m, LC_FAIL_ON_RBRACE))
                  ELSE stay(m)
             ELSE stay(m)
    IN IF a.returned THEN a.m
       ELSE IF Has(context, LC_HAS_TEXT)
            THEN IF Has(context, LC_FAIL_ON_TEXT)
                 THEN IF ~Py_UNICODE_ISSPACE(data)
                      THEN Tokenizer_fail_route(a.m)
                      ELSE a.m
                 ELSE IF data = NL THEN OrContext(a.m, LC_FAIL_ON_TEXT) ELSE a.m
            ELSE IF ~Py_UNICODE_ISSPACE(data)
                 THEN OrContext(a.m, LC_HAS_TEXT)
                 ELSE a.m

Tokenizer_verify_safe(m, context, data) ==
    IF Has(context, LC_FAIL_NEXT) THEN Tokenizer_fail_route(m)
    ELSE
    LET stay(x) == [m |-> x, returned |-> FALSE]
        leave(x) == [m |-> x, returned |-> TRUE]
        a == IF Has(context, LC_TEMPLATE_NAME \cup LC_WIKILINK_TITLE)
             THEN IF data \in {"{", "}", "[", "]"}
                  THEN leave(OrContext(m, LC_FAIL_NEXT))
                  ELSE stay(m)
             ELSE IF Has(context, LC_TEMPLATE_PARAM_KEY \cup LC_ARGUMENT_NAME)
             THEN IF Has(context, LC_FAIL_ON_LBRACE)
                  THEN IF data = "{"
                       THEN leave(OrContext(m, LC_FAIL_NEXT))
                       ELSE stay(XorContext(m, LC_FAIL_ON_LBRACE))
                  ELSE IF Has(context, LC_FAIL_ON_RBRACE)
                  THEN IF data = "}"
                       THEN leave(OrContext(m, LC_FAIL_NEXT))
                       ELSE stay(XorContext(m, LC_FAIL_ON_RBRACE))
                  ELSE IF data = "{" THEN stay(OrContext(m, LC_FAIL_ON_LBRACE))
                  ELSE IF data = "}" THEN stay(OrContext(m, LC_FAIL_ON_RBRACE))
                  ELSE stay(m)
             ELSE stay(m)
    IN IF a.returned THEN a.m
       ELSE IF Has(context, LC_HAS_TEXT)
            THEN IF Has(context, LC_FAIL_ON_TEXT)
                 THEN IF ~Py_UNICODE_ISSPACE(data)
                      THEN Tokenizer_fail_route(a.m)
                      ELSE a.m
                 ELSE IF data = NL THEN OrContext(a.m, LC_FAIL_ON_TEXT) ELSE a.m
            ELSE IF ~Py_UNICODE_ISSPACE(data)
                 THEN OrContext(a.m, LC_HAS_TEXT)
                 ELSE a.m

-----------------------------------------------------------------------------
(* Templates and arguments *)

TemplateOrArgumentLoop(m, braces) ==
    IF braces = 0
    THEN \* the loop is left: pop the frame and splice it into its parent
         LET p == Tokenizer_pop(m) IN
         Resume(ClearFailNext(Tokenizer_write_all(p.m, p.stack.tokens)))
    ELSE IF braces = 1
    THEN Resume(ClearFailNext(Tokenizer_write_text_then_stack(m, <<"{">>)))
    ELSE IF braces = 2
    THEN Enter(m, Caller("parse_template", m.self.head, braces, 0, FALSE), LC_TEMPLATE_NAME)
    ELSE Enter(m, Caller("parse_argument", m.self.head, braces, 0, FALSE), LC_ARGUMENT_NAME)

\* from the dispatch loop, head on the first "{"
Tokenizer_parse_template_or_argument(m) ==
    LET braces == 2 + RunLength(m, "{", 2)
        h == SetHead(m, m.self.head + braces)
    IN TemplateOrArgumentLoop(Tokenizer_push(h, {}), braces)

\* the rest of parse_template / parse_argument after a successful parse
WriteConstruct(m, open, tokenlist, close) ==
    Tokenizer_write(
        Tokenizer_write_all(Tokenizer_write_first(m, Token(open)), tokenlist),
        Token(close))

\* a value used as a token list that is not one
BadCast(m) == IF Faulted(m) THEN m ELSE [m EXCEPT !.fault = "bad_cast"]
AsList(m, value) == IF value.kind = "list" THEN m ELSE BadCast(m)

\* variant: a parsed argument uses up two braces instead of three
MutParseArgument(m, caller, value) ==
    IF BAD_ROUTE(m)
    THEN LET r == RESET_ROUTE(SetHead(m, caller.reset)) IN
         Enter(r, Caller("parse_template", r.self.head, caller.count, 0, TRUE),
               LC_TEMPLATE_NAME)
    ELSE LET w == WriteConstruct(AsList(m, value), "ArgumentOpen", value.tokens,
                                 "ArgumentClose")
             braces == caller.count - 2
         IN TemplateOrArgumentLoop(
                IF braces # 0 THEN SetHead(w, w.self.head + 1) ELSE w, braces)

\* Tokenizer_parse(LC_ARGUMENT_NAME) returned value to parse_argument,
\* called by parse_template_or_argument with `braces` braces left
Tokenizer_parse_argument(m, caller, value) ==
    IF BAD_ROUTE(m)
    THEN \* parse_argument: head = reset, return 0; the caller tries a template
         LET r == RESET_ROUTE(SetHead(m, caller.reset)) IN
         Enter(r, Caller("parse_template", r.self.head, caller.count, 0, TRUE),
               LC_TEMPLATE_NAME)
    ELSE LET w == WriteConstruct(AsList(m, value), "ArgumentOpen", value.tokens,
                                 "ArgumentClose")
             braces == caller.count - 3
         IN TemplateOrArgumentLoop(
                IF braces # 0 THEN SetHead(w, w.self.head + 1) ELSE w, braces)

\* Tokenizer_parse(LC_TEMPLATE_NAME) returned value to parse_template
Tokenizer_parse_template(m, caller, value) ==
    IF BAD_ROUTE(m)
    THEN \* parse_template: head = reset, return 0; the caller writes the braces
         LET r == RESET_ROUTE(SetHead(m, caller.reset)) IN
         Resume(ClearFailNext(
             Tokenizer_write_text_then_stack(r, Run("{", caller.count))))
    ELSE LET w == WriteConstruct(AsList(m, value), "TemplateOpen", value.tokens,
                                 "TemplateClose")
             braces == caller.count - 2
         IN IF ~caller.fallback
            THEN TemplateOrArgumentLoop(w, 0)
            ELSE TemplateOrArgumentLoop(
                     IF braces # 0 THEN SetHead(w, w.self.head + 1) ELSE w, braces)

\* pop_keeping_context and write_all of the popped stack
PopKeepingAndSplice(m) ==
    LET p == Tokenizer_pop_keeping_context(m) IN
    Tokenizer_write_all(p.m, p.stack.tokens)

Tokenizer_handle_template_param(m) ==
    OnTop(m, LAMBDA x :
        LET a == IF Has(TopContext(x), LC_TEMPLATE_NAME)
                 THEN XorContext(x, LC_TEMPLATE_NAME)
                 ELSE IF Has(TopContext(x), LC_TEMPLATE_PARAM_VALUE)
                 THEN XorContext(x, LC_TEMPLATE_PARAM_VALUE)
                 ELSE x
            b == IF Has(TopContext(a), LC_TEMPLATE_PARAM_KEY)
                 THEN PopKeepingAndSplice(a)
                 ELSE OrContext(a, LC_TEMPLATE_PARAM_KEY)
            c == Tokenizer_write(b, Token("TemplateParamSeparator"))
        IN OnTop(c, LAMBDA y : Tokenizer_push(y, TopContext(y))))

\* variant: TemplateParamEquals is written before the key is spliced in
MutHandleTemplateParamValue(m) ==
    LET p == Tokenizer_pop_keeping_context(m)
        a == Tokenizer_write(p.m, Token("TemplateParamEquals"))
        b == Tokenizer_write_all(a, p.stack.tokens)
    IN OrContext(XorContext(b, LC_TEMPLATE_PARAM_KEY), LC_TEMPLATE_PARAM_VALUE)

Tokenizer_handle_template_param_value(m) ==
    LET a == PopKeepingAndSplice(m)
        b == OrContext(XorContext(a, LC_TEMPLATE_PARAM_KEY), LC_TEMPLATE_PARAM_VALUE)
    IN Tokenizer_write(b, Token("TemplateParamEquals"))

Tokenizer_handle_template_end(m) ==
    LET a == IF Has(TopContext(m), LC_TEMPLATE_PARAM_KEY)
             THEN PopKeepingAndSplice(m)
             ELSE m
    IN Tokenizer_pop(SetHead(a, a.self.head + 1))

Tokenizer_handle_argument_separator(m) ==
    Tokenizer_write(
        OrContext(XorContext(m, LC_ARGUMENT_NAME), LC_ARGUMENT_DEFAULT),
        Token("ArgumentSeparator"))

\* variant: head is left on the second "}"
MutHandleArgumentEnd(m) ==
    Tokenizer_pop(SetHead(m, m.self.head + 1))

Tokenizer_handle_argument_end(m) ==
    Tokenizer_pop(SetHead(m, m.self.head + 2))

-----------------------------------------------------------------------------
(* Wikilinks *)

\* from the dispatch loop, head on the first "["
Tokenizer_parse_wikilink(m) ==
    LET h == SetHead(m, m.self.head + 2) IN
    Enter(h, Caller("parse_wikilink", h.self.head - 1, 0, 0, FALSE), LC_WIKILINK_TITLE)

\* Tokenizer_parse(LC_WIKILINK_TITLE) returned value to parse_wikilink
Tokenizer_parse_wikilink_return(m, caller, value) ==
    IF BAD_ROUTE(m)
    THEN LET r == SetHead(RESET_ROUTE(m), caller.reset) IN
         Resume(ClearFailNext(WriteChars(r, <<"[", "[">>)))
    ELSE Resume(ClearFailNext(
            Tokenizer_write(
                Tokenizer_write_all(
                    Tokenizer_write(AsList(m, value), Token("WikilinkOpen")),
                    value.tokens),
                Token("WikilinkClose"))))

\* variant: LC_WIKILINK_TITLE stays set after the "|"
MutHandleWikilinkSeparator(m) ==
    Tokenizer_write(OrContext(m, LC_WIKILINK_TEXT), Token("WikilinkSeparator"))

Tokenizer_handle_wikilink_separator(m) ==
    Tokenizer_write(
        OrContext(XorContext(m, LC_WIKILINK_TITLE), LC_WIKILINK_TEXT),
        Token("WikilinkSeparator"))

Tokenizer_handle_wikilink_end(m) ==
    Tokenizer_pop(SetHead(m, m.self.head + 1))

-----------------------------------------------------------------------------
(* Headings *)

XorGlobal(m, mask) == IF Faulted(m) THEN m ELSE [m EXCEPT !.self.global = Xor(@, mask)]
Min(a, b) == IF a < b THEN a ELSE b

\* from the dispatch loop, head on the first "="
Tokenizer_parse_heading(m) ==
    LET g == [m EXCEPT !.self.global = @ \cup GL_HEADING]
        reset == m.self.head
        best == 1 + RunLength(m, "=", 1)
        h == SetHead(g, reset + best)
        context == LC_HEADING_LEVEL((IF best > 5 THEN 5 ELSE best - 1) + 1)
    IN Enter(h, Caller("parse_heading", reset, best, 0, FALSE), context)

\* a value used as a HeadingData that is not one
AsHeading(m, value) == IF value.kind = "heading" THEN m ELSE BadCast(m)

\* variant: the failed route returns without clearing GL_HEADING
MutParseHeadingReturn(m, caller, value) ==
    LET best == caller.count IN
    IF BAD_ROUTE(m)
    THEN LET r == SetHead(RESET_ROUTE(m), caller.reset + best - 1)
             w == Tokenizer_write_text_then_stack(r, Run("=", best))
         IN Resume(w)
    ELSE LET a == Tokenizer_write(AsHeading(m, value), HeadingStartToken(value.level))
             b == IF value.level < best
                  THEN Tokenizer_write_text_then_stack(a, Run("=", best - value.level))
                  ELSE a
             c == Tokenizer_write(Tokenizer_write_all(b, value.tokens),
                                  Token("HeadingEnd"))
         IN Resume(XorGlobal(c, GL_HEADING))

\* Tokenizer_parse(context) returned value to parse_heading
Tokenizer_parse_heading_return(m, caller, value) ==
    LET best == caller.count IN
    IF BAD_ROUTE(m)
    THEN LET r == SetHead(RESET_ROUTE(m), caller.reset + best - 1)
             w == Tokenizer_write_text_then_stack(r, Run("=", best))
         IN Resume(XorGlobal(w, GL_HEADING))
    ELSE LET a == Tokenizer_write(AsHeading(m, value), HeadingStartToken(value.level))
             b == IF value.level < best
                  THEN Tokenizer_write_text_then_stack(a, Run("=", best - value.level))
                  ELSE a
             c == Tokenizer_write(Tokenizer_write_all(b, value.tokens),
                                  Token("HeadingEnd"))
         IN Resume(XorGlobal(c, GL_HEADING))

\* log2(context / LC_HEADING_LEVEL_1) + 1 for a context of heading flags
CurrentLevel(context) ==
    CHOOSE k \in 1..6 :
        /\ Has(context, LC_HEADING_LEVEL(k))
        /\ \A j \in (k + 1)..6 : ~Has(context, LC_HEADING_LEVEL(j))


\* variant: the level is the length of the closing run, whatever the context
MutHandleHeadingEnd(m) ==
    LET reset == m.self.head
        best == 1 + RunLength(m, "=", 1)
        h == SetHead(m, reset + best)
    IN Enter(h, Caller("handle_heading_end", reset, best, best, FALSE), TopContext(m))

\* from the dispatch loop, head on the first "=" of the run
Tokenizer_handle_heading_end(m) ==
    LET reset == m.self.head
        best == 1 + RunLength(m, "=", 1)
        h == SetHead(m, reset + best)
        current == CurrentLevel(TopContext(m))
        level == IF current > best
                 THEN (IF best > 6 THEN 6 ELSE best)
                 ELSE (IF current > 6 THEN 6 ELSE current)
    IN Enter(h, Caller("handle_heading_end", reset, best, level, FALSE), TopContext(m))

\* Tokenizer_parse(context) returned value to handle_heading_end, which then
\* returns its HeadingData from the Tokenizer_parse that called it
Tokenizer_handle_heading_end_return(m, caller, value) ==
    LET best == caller.count
        failed == BAD_ROUTE(m)
        b == IF failed
             THEN LET r == RESET_ROUTE(m)
                      a == IF caller.level < best
                           THEN Tokenizer_write_text_then_stack(
                                    r, Run("=", best - caller.level))
                           ELSE r
                  IN SetHead(a, caller.reset + best - 1)
             ELSE Tokenizer_write_all(
                      Tokenizer_write_text_then_stack(AsHeading(m, value), Run("=", best)),
                      value.tokens)
        level == IF failed THEN caller.level ELSE value.level
        p == Tokenizer_pop(b)
    IN Return(p.m, HeadingData(p.stack.tokens, level))

-----------------------------------------------------------------------------
(* Entities and comments *)

\* Tokenizer_really_parse_entity returns 0 and does nothing
Tokenizer_really_parse_entity(m) == m

\* from the dispatch loop, head on "&"
Tokenizer_parse_entity(m) ==
    LET reset == m.self.head
        e == Tokenizer_really_parse_entity(Tokenizer_push(m, {}))
    IN IF BAD_ROUTE(e)
       THEN LET r == SetHead(RESET_ROUTE(e), reset) IN
            Resume(Tokenizer_write_text(r, Tokenizer_read(r, 0)))
       ELSE LET p == Tokenizer_pop(e) IN
            Resume(Tokenizer_write_all(p.m, p.stack.tokens))

\* from the dispatch loop, head on "<"
Tokenizer_parse_comment(m) ==
    LET h == SetHead(m, m.self.head + 4) IN
    Enter(h, Caller("parse_comment", h.self.head - 1, 0, 0, FALSE), LC_WIKILINK_TITLE)

\* Tokenizer_parse(LC_WIKILINK_TITLE) returned value to parse_comment
Tokenizer_parse_comment_return(m, caller, value) ==
    IF BAD_ROUTE(m)
    THEN LET r == SetHead(RESET_ROUTE(m), caller.reset) IN
         Resume(WriteChars(r, <<"<", "!", "-", "-">>))
    ELSE LET w == Tokenizer_write(
                      Tokenizer_write_all(
                          Tokenizer_write(AsList(m, value), Token("CommentStart")),
                          value.tokens),
                      Token("CommentEnd"))
         IN Resume(SetHead(w, w.self.head + 2))

-----------------------------------------------------------------------------
(* The dispatch loop of Tokenizer_parse *)

\* the machine after the verifier ran, when the context asks for it
Verified(m) ==
    IF Has(TopContext(m), unsafe_contexts)
    THEN Tokenizer_verify_safe(m, TopContext(m), Tokenizer_read(m, 0))
    ELSE m

\* the branch of the if-else ladder that this_data, next and this_context select
Branch(m) ==
    LET this_data == Tokenizer_read(m, 0)
        this_context == TopContext(m)
        next == Tokenizer_read(m, 1)
    IN  IF this_data \notin MARKERS THEN "text"
        ELSE IF this_data = EMPTY THEN "end"
        ELSE IF Has(this_context, LC_COMMENT)
        THEN IF this_data = next /\ next = "-" /\ Tokenizer_read(m, 2) = ">"
             THEN "comment_end" ELSE "literal"
        ELSE IF this_data = next /\ next = "{" THEN "template_or_argument"
        ELSE IF this_data = "|" /\ Has(this_context, LC_TEMPLATE) THEN "template_param"
        ELSE IF this_data = "=" /\ Has(this_context, LC_TEMPLATE_PARAM_KEY)
        THEN "template_param_value"
        ELSE IF this_data = next /\ next = "}" /\ Has(this_context, LC_TEMPLATE)
        THEN "template_end"
        ELSE IF this_data = "|" /\ Has(this_context, LC_ARGUMENT_NAME)
        THEN "argument_separator"
        ELSE IF this_data = next /\ next = "}" /\ Has(this_context, LC_ARGUMENT)
        THEN IF Tokenizer_read(m, 2) = "}" THEN "argument_end" ELSE "literal"
        ELSE IF this_data = next /\ next = "["
        THEN IF ~Has(this_context, LC_WIKILINK_TITLE) THEN "wikilink" ELSE "literal"
        ELSE IF this_data = "|" /\ Has(this_context, LC_WIKILINK_TITLE)
        THEN "wikilink_separator"
        ELSE IF this_data = next /\ next = "]" /\ Has(this_context, LC_WIKILINK)
        THEN "wikilink_end"
        ELSE IF this_data = "=" /\ ~Has(m.self.global, GL_HEADING)
        THEN LET last == Tokenizer_read_backwards(m, 1) IN
             IF last = NL \/ last = EMPTY THEN "heading" ELSE "literal"
        ELSE IF this_data = "=" /\ Has(this_context, LC_HEADING) THEN "heading_end"
        ELSE IF this_data = NL /\ Has(this_context, LC_HEADING) THEN "heading_newline"
        ELSE IF this_data = "&" THEN "entity"
        ELSE IF this_data = "<" /\ next = "!"
        THEN LET next_next == Tokenizer_read(m, 2) IN
             IF next_next = Tokenizer_read(m, 3) /\ next_next = "-"
             THEN "comment" ELSE "literal"
        ELSE "literal"

\* the verifier failed the route: Tokenizer_parse returns NULL
VerifyFailed(m) == Has(TopContext(m), unsafe_contexts) /\ BAD_ROUTE(Verified(m))

\* the dispatch loop is at its top with a frame, the verifier lets it go on,
\* and the ladder selects branch
At(branch) ==
    /\ pc = "loop"
    /\ self.topstack # <<>>
    /\ ~VerifyFailed(Machine)
    /\ Branch(Machine) = branch

\* the step's result becomes the next state; base is the chain of callers left
Commit(r, base) ==
    /\ self' = r.m.self
    /\ route_state' = r.m.route_state
    /\ fault' = r.m.fault
    /\ IF Faulted(r.m)
       THEN pc' = "fault" /\ calls' = calls /\ ret' = NULL /\ entry' = entry
       ELSE /\ pc' = r.pc /\ calls' = base \o r.push /\ ret' = r.ret
            /\ entry' = SubSeq(entry, 1, Len(base))
                            \o [i \in 1..Len(r.push) |-> Tail(r.m.self.topstack)]
    /\ UNCHANGED <<ncalls, results, other>>

ParseVerifyFailed ==
    /\ pc = "loop"
    /\ self.topstack # <<>>
    /\ VerifyFailed(Machine)
    /\ Commit(Return(Verified(Machine), NULL), calls)

ParseText ==
    /\ At("text")
    /\ LET v == Verified(Machine) IN
       Commit(Resume(Tokenizer_write_text(v, Tokenizer_read(v, 0))), calls)

ParseEnd ==
    /\ At("end")
    /\ LET this_context == TopContext(Machine)
           v == Verified(Machine)
           t == IF Has(this_context, LC_TEMPLATE_PARAM_KEY) THEN Tokenizer_pop(v).m ELSE v
       IN IF Has(this_context, fail_contexts)
          THEN Commit(Return(Tokenizer_fail_route(t), NULL), calls)
          ELSE LET p == Tokenizer_pop(t) IN Commit(Return(p.m, p.stack), calls)

\* every branch of the ladder that writes this_data as text; in a frame with
\* LC_COMMENT, which no caller pushes, "-->" returns the popped frame instead
ParseLiteral ==
    /\ At("literal") \/ At("comment_end")
    /\ LET v == Verified(Machine) IN
       IF Branch(Machine) = "comment_end"
       THEN LET p == Tokenizer_pop(v) IN Commit(Return(p.m, p.stack), calls)
       ELSE Commit(Resume(Tokenizer_write_text(v, Tokenizer_read(v, 0))), calls)

ParseTemplateOrArgument ==
    /\ At("template_or_argument")
    /\ Commit(Tokenizer_parse_template_or_argument(Verified(Machine)), calls)

ParseTemplateParam ==
    /\ At("template_param")
    /\ Commit(Resume(Tokenizer_handle_template_param(Verified(Machine))), calls)

ParseTemplateParamValue ==
    /\ At("template_param_value")
    /\ Commit(Resume(Tokenizer_handle_template_param_value(Verified(Machine))), calls)

ParseTemplateEnd ==
    /\ At("template_end")
    /\ LET p == Tokenizer_handle_template_end(Verified(Machine)) IN
       Commit(Return(p.m, p.stack), calls)

ParseArgumentSeparator ==
    /\ At("argument_separator")
    /\ Commit(Resume(Tokenizer_handle_argument_separator(Verified(Machine))), calls)

ParseArgumentEnd ==
    /\ At("argument_end")
    /\ LET p == Tokenizer_handle_argument_end(Verified(Machine)) IN
       Commit(Return(p.m, p.stack), calls)

ParseWikilink ==
    /\ At("wikilink")
    /\ Commit(Tokenizer_parse_wikilink(Verified(Machine)), calls)

ParseWikilinkSeparator ==
    /\ At("wikilink_separator")
    /\ Commit(Resume(Tokenizer_handle_wikilink_separator(Verified(Machine))), calls)

ParseWikilinkEnd ==
    /\ At("wikilink_end")
    /\ LET p == Tokenizer_handle_wikilink_end(Verified(Machine)) IN
       Commit(Return(p.m, p.stack), calls)

ParseHeading ==
    /\ At("heading")
    /\ Commit(Tokenizer_parse_heading(Verified(Machine)), calls)

ParseHeadingEnd ==
    /\ At("heading_end")
    /\ Commit(Tokenizer_handle_heading_end(Verified(Machine)), calls)

ParseHeadingNewline ==
    /\ At("heading_newline")
    /\ Commit(Return(Tokenizer_fail_route(Verified(Machine)), NULL), calls)

ParseEntity ==
    /\ At("entity")
    /\ Commit(Tokenizer_parse_entity(Verified(Machine)), calls)

ParseComment ==
    /\ At("comment")
    /\ Commit(Tokenizer_parse_comment(Verified(Machine)), calls)

-----------------------------------------------------------------------------
(* Continuations: the innermost Tokenizer_parse returned to its caller *)

Front(s) == SubSeq(s, 1, Len(s) - 1)
Last(s) == s[Len(s)]

Returned(fn) == pc = "return" /\ calls # <<>> /\ Last(calls).fn = fn

ArgumentReturn ==
    /\ Returned("parse_argument")
    /\ Commit(Tokenizer_parse_argument(Machine, Last(calls), ret), Front(calls))

TemplateReturn ==
    /\ Returned("parse_template")
    /\ Commit(Tokenizer_parse_template(Machine, Last(calls), ret), Front(calls))

WikilinkReturn ==
    /\ Returned("parse_wikilink")
    /\ Commit(Tokenizer_parse_wikilink_return(Machine, Last(calls), ret), Front(calls))

HeadingReturn ==
    /\ Returned("parse_heading")
    /\ Commit(Tokenizer_parse_heading_return(Machine, Last(calls), ret), Front(calls))

HeadingEndReturn ==
    /\ Returned("handle_heading_end")
    /\ Commit(Tokenizer_handle_heading_end_return(Machine, Last(calls), ret), Front(calls))

CommentReturn ==
    /\ Returned("parse_comment")
    /\ Commit(Tokenizer_parse_comment_return(Machine, Last(calls), ret), Front(calls))

-----------------------------------------------------------------------------
(* Input texts *)

\* characters of the exhaustive input set
Alphabet == {"{", "}", "|", "=", "&", NL, "a"}

\* every text of at most MaxLen characters over Alphabet
ShortTexts == UNION {[1..n -> Alphabet] : n \in 0..MaxLen}

\* plain-text pieces: no marker, no newline
Pieces == {<<"a">>, <<"b", " ", "c">>}

\* A case is a text with the token sequence its construction stands for.
Case(text, tokens) == [text |-> text, tokens |-> tokens]

\* the parameters of a generated template: "|" key "=" value, or "|" value
ParamCases ==
    {Case(<<"|">> \o k \o <<"=">> \o v,
          <<Token("TemplateParamSeparator"), TextToken(k),
            Token("TemplateParamEquals"), TextToken(v)>>) : k \in Pieces, v \in Pieces}
        \cup {Case(<<"|">> \o v, <<Token("TemplateParamSeparator"), TextToken(v)>>) :
                v \in Pieces}

RECURSIVE ParamListCases(_)
ParamListCases(n) ==
    IF n = 0 THEN {Case(<<>>, <<>>)}
    ELSE ParamListCases(n - 1)
            \cup {Case(ps.text \o p.text, ps.tokens \o p.tokens) :
                    ps \in ParamListCases(n - 1), p \in ParamCases}

\* {{name}}, {{name|k=v|p}} ...
TemplateCases ==
    {Case(<<"{", "{">> \o name \o ps.text \o <<"}", "}">>,
          <<Token("TemplateOpen"), TextToken(name)>> \o ps.tokens
              \o <<Token("TemplateClose")>>) :
        name \in Pieces, ps \in ParamListCases(MaxParams)}
TemplateTexts == {c.text : c \in TemplateCases}

\* {{{name}}}, {{{name|default}}}
ArgumentCases ==
    {Case(<<"{", "{", "{">> \o name \o <<"}", "}", "}">>,
          <<Token("ArgumentOpen"), TextToken(name), Token("ArgumentClose")>>) :
        name \in Pieces}
        \cup {Case(<<"{", "{", "{">> \o name \o <<"|">> \o d \o <<"}", "}", "}">>,
                   <<Token("ArgumentOpen"), TextToken(name), Token("ArgumentSeparator"),
                     TextToken(d), Token("ArgumentClose")>>) :
                name \in Pieces, d \in Pieces}
\* an argument followed by text, and one with only two closing braces
ArgumentTexts ==
    {c.text : c \in ArgumentCases}
        \cup {c.text \o <<"b">> : c \in ArgumentCases}
        \cup {<<"{", "{", "{", "a", "}", "}", "b", "}", "}", "}">>,
              <<"{", "{", "{", "a", "}", "}", "b">>}

\* a template with at most one parameter cut before its end: "{{", "{{a",
\* "{{a|b c=", "{{a|b c=a}" ...
UnterminatedTexts ==
    UNION {{SubSeq(text, 1, n) : n \in 2..(Len(text) - 1)} :
             text \in {<<"{", "{">> \o name \o ps.text \o <<"}", "}">> :
                         name \in Pieces, ps \in ParamListCases(1)}}

\* n opening braces, x, n closing braces
Braces(n) == Run("{", n) \o <<"x">> \o Run("}", n)
BraceTexts == {Braces(n) : n \in 1..5}

\* a heading line with n opening and k closing "=", alone, after a newline,
\* inside the text of a wikilink, or after a template with a broken key
HeadingLines == {Run("=", n) \o <<"a">> \o Run("=", k) : n \in 1..MaxRun, k \in 0..MaxRun}
HeadingTexts ==
    HeadingLines
        \cup {<<NL>> \o h \o <<NL>> : h \in HeadingLines}
        \cup {<<"[", "[", "a", "|", NL>> \o h \o <<"]", "]">> : h \in HeadingLines}
        \cup {<<"{", "{", "|", NL>> \o h : h \in HeadingLines}
        \cup {<<"{", "{", "|", NL, "[", "[", "a", "|", NL>> \o h \o <<"]", "]">> :
                h \in HeadingLines}

\* [[title]], [[title|text]], [[title|text|more]]
LinkCases ==
    {Case(<<"[", "[">> \o t \o <<"]", "]">>,
          <<Token("WikilinkOpen"), TextToken(t), Token("WikilinkClose")>>) : t \in Pieces}
        \cup {Case(<<"[", "[">> \o t \o <<"|">> \o x \o <<"]", "]">>,
                   <<Token("WikilinkOpen"), TextToken(t), Token("WikilinkSeparator"),
                     TextToken(x), Token("WikilinkClose")>>) : t \in Pieces, x \in Pieces}
        \cup {Case(<<"[", "[">> \o t \o <<"|">> \o x \o <<"|">> \o y \o <<"]", "]">>,
                   <<Token("WikilinkOpen"), TextToken(t), Token("WikilinkSeparator"),
                     TextToken(x \o <<"|">> \o y), Token("WikilinkClose")>>) :
                t \in Pieces, x \in Pieces, y \in Pieces}
\* a link alone, and followed by a character, a third "]" included
WikilinkCases ==
    LinkCases
        \cup {Case(c.text \o <<ch>>, c.tokens \o <<TextToken(<<ch>>)>>) :
                c \in LinkCases, ch \in {"a", "]"}}
WikilinkTexts ==
    {c.text : c \in WikilinkCases}
        \cup {<<"[", "[", "a">>, <<"[", "[", "a", "|", "b", "|", "c", "]", "]">>}

CommentTexts ==
    {<<"<", "!", "-", "-">> \o body \o close \o <<"x">> :
        body \in Pieces,
        close \in {<<"-", "-", ">">>, <<"]", "]">>, <<>>}}
        \cup {<<"<", "!", "a">>}

\* a template whose parameter key has text, a newline and text again, followed
\* by every text of less than MaxLen characters
BrokenKeyTexts ==
    {<<"{", "{", "a", "|", "b", NL, "c">> \o rest :
        rest \in UNION {[1..n -> Alphabet] : n \in 0..(MaxLen - 1)}}

\* a heading line whose title holds a run of "=": n opening, k inside, j
\* closing, alone or after a template with a broken key
LaterCloseLines ==
    {Run("=", n) \o <<"a">> \o Run("=", k) \o <<"b">> \o Run("=", j) :
        n \in 1..2, k \in 1..2, j \in 1..2}
LaterCloseTexts ==
    LaterCloseLines \cup {<<"{", "{", "|", NL>> \o h : h \in LaterCloseLines}

\* a heading whose title holds a wikilink or a template with a line that
\* starts with "="
NestedTitleTexts ==
    {<<"=", "[", "[", "a", "|", NL, "=", "b", "=", "]", "]", "=">>,
     <<"=", "[", "[", "a", "|", NL, "=", "b", "]", "]", "=">>,
     <<"=", "{", "{", "a", "|", "b", "=", NL, "=", "c", "=", "}", "}", "=">>}

\* a brace or a bracket in a template name or in a wikilink title: alone, or
\* as the start of a template or wikilink that closes or does not
NameTexts ==
    {<<"{", "{", "a", "}", "b", "}", "}">>,
     <<"{", "{", "a", "]", "}", "}">>,
     <<"[", "[", "a", "[", "b", "]", "]">>,
     <<"[", "[", "a", "}", "]", "]">>,
     <<"{", "{", "a", "{", "{", "b", "}", "}", "}", "}">>,
     <<"{", "{", "a", "[", "[", "b", "]", "]", "}", "}">>,
     <<"{", "{", "[", "[", "a", "}", "}">>,
     <<"{", "{", "a", "[", "[", "b", "}", "}">>,
     <<"[", "[", "{", "{", "a", "]", "]">>}

\* one brace alone in a parameter key or in an argument name
BraceNameCases ==
    UNION {{Case(<<"{", "{", "a", "|", "b", ch, "c", "}", "}">>,
                 <<Token("TemplateOpen"), TextToken(<<"a">>), Token("TemplateParamSeparator"),
                   TextToken(<<"b", ch, "c">>), Token("TemplateClose")>>),
            Case(<<"{", "{", "{", "a", ch, "b", "}", "}", "}">>,
                 <<Token("ArgumentOpen"), TextToken(<<"a", ch, "b">>),
                   Token("ArgumentClose")>>)} : ch \in {"{", "}"}}

\* a brace read in a parameter key or in an argument name right after a
\* template or a brace: alone
SecondBraceTexts ==
    {<<"{", "{", "a", "|", "{", "{", "b", "}", "}", "{", "c", "}", "}">>,
     <<"{", "{", "{", "a", "{", "{", "b", "}", "}", "{", "c", "}", "}", "}">>,
     <<"{", "{", "{", "a", "}", "}", "b", "}", "}", "}">>}

\* the same, the brace being the first of a template
SecondTemplateTexts ==
    {<<"{", "{", "a", "|", "{", "{", "b", "}", "}", "{", "{", "c", "}", "}", "}", "}">>,
     <<"{", "{", "{", "a", "{", "{", "b", "}", "}", "{", "{", "c", "}", "}", "}", "}", "}">>}

\* a newline before the first text of a name, a title or a key
NewlineFirstCases ==
    {Case(<<"{", "{", NL, "a", "}", "}">>,
          <<Token("TemplateOpen"), TextToken(<<NL, "a">>), Token("TemplateClose")>>),
     Case(<<"[", "[", NL, "a", "]", "]">>,
          <<Token("WikilinkOpen"), TextToken(<<NL, "a">>), Token("WikilinkClose")>>),
     Case(<<"{", "{", "{", NL, "a", "}", "}", "}">>,
          <<Token("ArgumentOpen"), TextToken(<<NL, "a">>), Token("ArgumentClose")>>),
     Case(<<"{", "{", "a", "|", NL, "b", "=", "c", "}", "}">>,
          <<Token("TemplateOpen"), TextToken(<<"a">>), Token("TemplateParamSeparator"),
            TextToken(<<NL, "b">>), Token("TemplateParamEquals"), TextToken(<<"c">>),
            Token("TemplateClose")>>)}

\* a newline after the text of a name, a title or a key, then the character
\* that would end it, with or without a blank between
NewlineLastTexts ==
    {<<"{", "{", "a", NL, "}", "}">>,
     <<"{", "{", "a", NL, " ", "}", "}">>,
     <<"{", "{", "a", NL, "|", "b", "}", "}">>,
     <<"{", "{", "a", "|", "b", NL, "}", "}">>,
     <<"[", "[", "a", NL, "]", "]">>,
     <<"[", "[", "a", NL, "|", "b", "]", "]">>,
     <<"{", "{", "{", "a", NL, "}", "}", "}">>,
     <<"{", "{", "{", "a", NL, "|", "b", "}", "}", "}">>}

Texts ==
    ShortTexts \cup TemplateTexts \cup ArgumentTexts \cup BraceTexts
        \cup HeadingTexts \cup WikilinkTexts \cup CommentTexts \cup BrokenKeyTexts
        \cup UnterminatedTexts \cup LaterCloseTexts \cup NestedTitleTexts
        \cup NameTexts \cup {c.text : c \in BraceNameCases}
        \cup SecondBraceTexts \cup SecondTemplateTexts
        \cup {c.text : c \in NewlineFirstCases} \cup NewlineLastTexts

-----------------------------------------------------------------------------
(* Tokenizer_init, Tokenizer_tokenize *)

\* Tokenizer_new, Tokenizer_init: an instance before its first tokenize call
NewInstance ==
    [self |-> [text |-> <<>>, length |-> 0, head |-> 0, global |-> {}, topstack |-> <<>>],
     route_state |-> 0, fault |-> "none", calls |-> <<>>, ret |-> NULL,
     pc |-> "idle", ncalls |-> 0, results |-> <<>>, entry |-> <<>>]

Init ==
    /\ self = NewInstance.self
    /\ route_state = NewInstance.route_state
    /\ fault = NewInstance.fault
    /\ calls = NewInstance.calls
    /\ ret = NewInstance.ret
    /\ pc = NewInstance.pc
    /\ ncalls = NewInstance.ncalls
    /\ results = NewInstance.results
    /\ entry = NewInstance.entry
    /\ other = NewInstance

\* tokenize(text): self->text, self->length, then Tokenizer_parse(self, 0)
Tokenizer_tokenize(m, text) ==
    Tokenizer_push([m EXCEPT !.self.text = text, !.self.length = Len(text)], {})

Tokenize ==
    /\ pc = "idle"
    /\ \E text \in Texts :
         LET m == Tokenizer_tokenize(Machine, text) IN
         /\ self' = m.self
         /\ route_state' = m.route_state
         /\ fault' = m.fault
    /\ calls' = <<Caller("tokenize", 0, 0, 0, FALSE)>>
    /\ entry' = <<self.topstack>>
    /\ ret' = NULL
    /\ pc' = "loop"
    /\ ncalls' = ncalls + 1
    /\ UNCHANGED <<results, other>>

\* the top-level Tokenizer_parse returned: tokenize returns its value
TokenizeReturn ==
    /\ Returned("tokenize")
    /\ IF ret.kind = "heading"
       THEN /\ fault' = "bad_cast"
            /\ pc' = "fault"
            /\ UNCHANGED results
       ELSE /\ results' = Append(results, ret)
            /\ pc' = "done"
            /\ UNCHANGED fault
    /\ calls' = <<>>
    /\ entry' = <<>>
    /\ ret' = NULL
    /\ UNCHANGED <<self, route_state, ncalls, other>>

\* a further tokenize call on the same instance, with the same text
TokenizeAgain ==
    /\ pc = "done"
    /\ ncalls < MaxCalls
    /\ LET m == Tokenizer_tokenize(Machine, self.text) IN
         /\ self' = m.self
         /\ route_state' = m.route_state
         /\ fault' = m.fault
    /\ calls' = <<Caller("tokenize", 0, 0, 0, FALSE)>>
    /\ entry' = <<self.topstack>>
    /\ ret' = NULL
    /\ pc' = "loop"
    /\ ncalls' = ncalls + 1
    /\ UNCHANGED <<results, other>>

Next ==
    \/ Tokenize
    \/ ParseVerifyFailed
    \/ ParseText
    \/ ParseEnd
    \/ ParseLiteral
    \/ ParseTemplateOrArgument
    \/ ParseTemplateParam
    \/ ParseTemplateParamValue
    \/ ParseTemplateEnd
    \/ ParseArgumentSeparator
    \/ ParseArgumentEnd
    \/ ParseWikilink
    \/ ParseWikilinkSeparator
    \/ ParseWikilinkEnd
    \/ ParseHeading
    \/ ParseHeadingEnd
    \/ ParseHeadingNewline
    \/ ParseEntity
    \/ ParseComment
    \/ ArgumentReturn
    \/ TemplateReturn
    \/ WikilinkReturn
    \/ HeadingReturn
    \/ HeadingEndReturn
    \/ CommentReturn
    \/ TokenizeReturn

\* one tokenize call on a newly initialised tokenizer
Spec == Init /\ [][Next]_vars

\* successive tokenize calls on one tokenizer
NextReuse == Next \/ TokenizeAgain
SpecReuse == Init /\ [][NextReuse]_vars

\* texts given to two instances that tokenize at the same time
PairTexts ==
    {<<"{", "{", "a", "|", "b", "=", "c", "}", "}">>,
     <<"{", "{", "{", "a", "|", "b", "}", "}", "}">>,
     <<"[", "[", "a", "|", "b", "]", "]">>,
     <<"=", "a", "=">>,
     <<"{", "{", "|", NL, "=", "=", "a", NL>>,
     <<"&">>,
     <<"<", "!", "-", "-", "a">>}

\* the running instance, as it stands while the thread of the other one runs
Running ==
    [self |-> self, route_state |-> route_state, fault |-> fault, calls |-> calls,
     ret |-> ret, pc |-> pc, ncalls |-> ncalls, results |-> results, entry |-> entry]

\* variant: one failed marker for all instances, the resumed one finds what
\* the instance that ran before it left
MutRouteOnResume(own, left) == left

\* the failed marker a resumed instance finds is the one of its own last
\* call, own; left is the marker of the instance that ran meanwhile
RouteOnResume(own, left) == own

\* tokenize(text) on the running instance, text one of PairTexts
TokenizePair ==
    /\ pc = "idle"
    /\ \E text \in PairTexts :
         LET m == Tokenizer_tokenize(Machine, text) IN
         /\ self' = m.self
         /\ route_state' = m.route_state
         /\ fault' = m.fault
    /\ calls' = <<Caller("tokenize", 0, 0, 0, FALSE)>>
    /\ entry' = <<self.topstack>>
    /\ ret' = NULL
    /\ pc' = "loop"
    /\ ncalls' = ncalls + 1
    /\ UNCHANGED <<results, other>>

\* the thread of the other instance is scheduled, between any two steps
Switch ==
    /\ pc # "fault"
    /\ self' = other.self
    /\ route_state' = RouteOnResume(other.route_state, route_state)
    /\ fault' = other.fault
    /\ calls' = other.calls
    /\ ret' = other.ret
    /\ pc' = other.pc
    /\ ncalls' = other.ncalls
    /\ results' = other.results
    /\ entry' = other.entry
    /\ other' = Running

NextPair ==
    \/ TokenizePair
    \/ Switch
    \/ ParseVerifyFailed
    \/ ParseText
    \/ ParseEnd
    \/ ParseLiteral
    \/ ParseTemplateOrArgument
    \/ ParseTemplateParam
    \/ ParseTemplateParamValue
    \/ ParseTemplateEnd
    \/ ParseArgumentSeparator
    \/ ParseArgumentEnd
    \/ ParseWikilink
    \/ ParseWikilinkSeparator
    \/ ParseWikilinkEnd
    \/ ParseHeading
    \/ ParseHeadingEnd
    \/ ParseHeadingNewline
    \/ ParseEntity
    \/ ParseComment
    \/ ArgumentReturn
    \/ TemplateReturn
    \/ WikilinkReturn
    \/ HeadingReturn
    \/ HeadingEndReturn
    \/ CommentReturn
    \/ TokenizeReturn

\* two instances, each with one tokenize call, interleaved at any step
SpecPair == Init /\ [][NextPair]_vars

-----------------------------------------------------------------------------
(* Sanity of the model *)

\* head never goes below 0, so Tokenizer_read never indexes before the text,
\* the dispatch loop never starts an iteration without a frame (a missing
\* frame is met inside an operation, which ends the run), and a frame in a
\* heading context carries exactly one heading level flag
ModelSane ==
    /\ self.head >= 0
    /\ pc = "loop" => self.topstack # <<>>
    /\ \A i \in 1..Len(self.topstack) :
         Has(self.topstack[i].context, LC_HEADING) =>
             Cardinality(self.topstack[i].context) = 1

-----------------------------------------------------------------------------
(* What the claims speak about *)

Done == pc = "done"
\* the token sequence returned by the latest completed tokenize call
Out == results[Len(results)].tokens

\* the fixed literal of a non-text token; level is the level of the heading
\* that a HeadingEnd closes
Literal(token, level) ==
    CASE token.type = "Text" -> token.text
      [] token.type = "TemplateOpen" -> <<"{", "{">>
      [] token.type = "TemplateParamSeparator" -> <<"|">>
      [] token.type = "TemplateParamEquals" -> <<"=">>
      [] token.type = "TemplateClose" -> <<"}", "}">>
      [] token.type = "ArgumentOpen" -> <<"{", "{", "{">>
      [] token.type = "ArgumentSeparator" -> <<"|">>
      [] token.type = "ArgumentClose" -> <<"}", "}", "}">>
      [] token.type = "WikilinkOpen" -> <<"[", "[">>
      [] token.type = "WikilinkSeparator" -> <<"|">>
      [] token.type = "WikilinkClose" -> <<"]", "]">>
      [] token.type = "HeadingStart" -> Run("=", token.level)
      [] token.type = "HeadingEnd" -> Run("=", level)
      [] token.type = "CommentStart" -> <<"<", "!", "-", "-">>
      [] token.type = "CommentEnd" -> <<"-", "-", ">">>

\* the text the tokens stand for; levels holds the levels of the headings open
RECURSIVE Rendering(_, _)
Rendering(tokens, levels) ==
    IF tokens = <<>> THEN <<>>
    ELSE LET token == Head(tokens)
             level == IF levels = <<>> THEN 0 ELSE Head(levels)
             after == IF token.type = "HeadingStart" THEN <<token.level>> \o levels
                      ELSE IF token.type = "HeadingEnd" /\ levels # <<>> THEN Tail(levels)
                      ELSE levels
         IN Literal(token, level) \o Rendering(Tail(tokens), after)

\* every token list of the state: the frames', the returned value's, the results'
TokenLists ==
    {self.topstack[i].stack : i \in 1..Len(self.topstack)}
        \cup {ret.tokens}
        \cup {results[i].tokens : i \in 1..Len(results)}

Range(s) == {s[i] : i \in 1..Len(s)}

\* the token that closes what an opening token opens
Closer(type) ==
    CASE type = "TemplateOpen" -> "TemplateClose"
      [] type = "ArgumentOpen" -> "ArgumentClose"
      [] type = "WikilinkOpen" -> "WikilinkClose"
      [] type = "CommentStart" -> "CommentEnd"
      [] type = "HeadingStart" -> "HeadingEnd"
Openers == {"TemplateOpen", "ArgumentOpen", "WikilinkOpen", "CommentStart", "HeadingStart"}
Closers == {Closer(type) : type \in Openers}

\* open holds the closers awaited, innermost first
RECURSIVE Nested(_, _)
Nested(tokens, open) ==
    IF tokens = <<>> THEN open = <<>>
    ELSE LET type == Head(tokens).type IN
         IF type \in Openers THEN Nested(Tail(tokens), <<Closer(type)>> \o open)
         ELSE IF type \in Closers
         THEN open # <<>> /\ Head(open) = type /\ Nested(Tail(tokens), Tail(open))
         ELSE Nested(Tail(tokens), open)

-----------------------------------------------------------------------------
(* Claims *)

\* C1: when tokenize has returned, the texts of the Text tokens and the fixed
\* literals of the other tokens, concatenated in order, are the input text.
C1_TextFaithful == Done => Rendering(Out, <<>>) = self.text

\* C2: tokenize never ends in an operation on a missing frame or on a value of
\* the wrong kind, and when it returns it returns a token list with no route
\* failure left pending.
C2_CompletesNormally ==
    /\ pc # "fault"
    /\ Done => results[Len(results)].kind = "list" /\ route_state = 0

\* C3: every tokenize call on the same text returns the same token sequence,
\* also a later call on the same instance.
C3_Deterministic == \A i, j \in 1..Len(results) : results[i] = results[j]

\* C4: no two consecutive tokens of the output are both Text tokens.
C4_NoAdjacentText ==
    Done => \A i \in 1..(Len(Out) - 1) :
                ~(Out[i].type = "Text" /\ Out[i + 1].type = "Text")

\* C5: no Text token of any frame's token list, of a returned list or of the
\* output has an empty text.
C5_NoEmptyText ==
    \A tokens \in TokenLists : \A token \in Range(tokens) :
        token.type = "Text" => token.text # <<>>

\* every opening token of the output is closed later by its closing token and
\* the pairs are properly nested
C6_Balanced == Done => Nested(Out, <<>>)

\* C7: every HeadingStart token of the output has a level from 1 to 6.
C7_HeadingLevel ==
    Done => \A token \in Range(Out) :
                token.type = "HeadingStart" => token.level \in 1..6

\* C6 (nesting by write_first): of a run of five braces the three innermost
\* are parsed first, as an argument, and the template parsed after it from the
\* two outer ones is wrapped around it.
C6_WrappedAround ==
    Done /\ self.text = Braces(5) =>
        Out = <<Token("TemplateOpen"), Token("ArgumentOpen"), TextToken(<<"x">>),
                Token("ArgumentClose"), Token("TemplateClose")>>

\* C6: in the output every opening token is closed later by its closing
\* token, the pairs are properly nested, and of the two constructs that come
\* from one run of five braces the one parsed later is wrapped around the
\* one parsed first.
C6_BalancedNested == C6_Balanced /\ C6_WrappedAround

\* C8: a template written with plain-text pieces tokenizes to TemplateOpen,
\* Text(name), for each "|" a TemplateParamSeparator followed by Text(key),
\* TemplateParamEquals, Text(value) or by one Text(value), and TemplateClose.
C8_TemplateTokens ==
    Done => \A c \in TemplateCases : c.text = self.text => Out = c.tokens

\* C9 (output): {{{name}}} and {{{name|default}}} tokenize to ArgumentOpen,
\* Text(name), [ArgumentSeparator, Text(default),] ArgumentClose.
C9_ArgumentTokens ==
    Done => \A c \in ArgumentCases : c.text = self.text => Out = c.tokens

\* C9 (close): when the dispatch loop, in a frame with an argument context,
\* returns a token list, three "}" stand at head, and head is moved to the
\* third of them.
C9_ClosedByThree ==
    [][(/\ pc = "loop"
        /\ self.topstack # <<>>
        /\ Has(TopContext(Machine), LC_ARGUMENT)
        /\ pc' = "return"
        /\ ret'.kind = "list")
       => (/\ \A d \in 0..2 : Tokenizer_read(Machine, d) = "}"
           /\ self'.head = self.head + 2)]_vars

C10_ArgumentOfTemplate ==
    Done /\ self.text = Braces(4) =>
        Out = <<Token("ArgumentOpen"), Token("TemplateOpen"), TextToken(<<"x">>),
                Token("TemplateClose"), Token("ArgumentClose")>>

\* C10 as amended: of a run of four braces the three innermost are an
\* argument, and the outermost "{" and the last "}" are text.
C10_ArgumentInBraces ==
    Done /\ self.text = Braces(4) =>
        Out = <<TextToken(<<"{">>), Token("ArgumentOpen"), TextToken(<<"x">>),
                Token("ArgumentClose"), TextToken(<<"}">>)>>

\* C11: [[title]] and [[title|text]] tokenize to WikilinkOpen, Text(title),
\* [WikilinkSeparator, Text(text),] WikilinkClose; a "|" after the first one of
\* a link is text of the link, and what follows the second "]" is scanned next.
C11_WikilinkTokens ==
    Done => \A c \in WikilinkCases : c.text = self.text => Out = c.tokens

\* the call has ended: tokenize returned, or the run met an undefined operation
Ended == pc \in {"done", "fault"}

\* a line of n "=", the title "a" and k "=" between two newlines
HeadingLineText(n, k) == <<NL>> \o Run("=", n) \o <<"a">> \o Run("=", k) \o <<NL>>

\* C12: a heading line with n <= 6 opening and k > n closing "=" gives
\* Text(newline), HeadingStart(n), the title, the k - n excess "=" as text at
\* the end of the title (a Text of its own or the end of the title's Text),
\* HeadingEnd, Text(newline).
C12_ExcessClosingRun ==
    \A n \in 1..6 : \A k \in (n + 1)..MaxRun :
        Ended /\ self.text = HeadingLineText(n, k) =>
            /\ Done
            /\ Out \in {<<TextToken(<<NL>>), HeadingStartToken(n), TextToken(<<"a">>),
                          TextToken(Run("=", k - n)), Token("HeadingEnd"),
                          TextToken(<<NL>>)>>,
                        <<TextToken(<<NL>>), HeadingStartToken(n),
                          TextToken(<<"a">> \o Run("=", k - n)), Token("HeadingEnd"),
                          TextToken(<<NL>>)>>}

C14_CommentTokens ==
    \A body \in Pieces :
        Ended /\ self.text = <<"<", "!", "-", "-">> \o body \o <<"-", "-", ">", "x">> =>
            /\ Done
            /\ Out = <<Token("CommentStart"), TextToken(body), Token("CommentEnd"),
                       TextToken(<<"x">>)>>

\* what tokenize returns for a text of PairTexts when its instance runs alone
Alone(text) ==
    CASE text = <<"{", "{", "a", "|", "b", "=", "c", "}", "}">> ->
           <<Token("TemplateOpen"), TextToken(<<"a">>), Token("TemplateParamSeparator"),
             TextToken(<<"b">>), Token("TemplateParamEquals"), TextToken(<<"c">>),
             Token("TemplateClose")>>
      [] text = <<"{", "{", "{", "a", "|", "b", "}", "}", "}">> ->
           <<Token("ArgumentOpen"), TextToken(<<"a">>), Token("ArgumentSeparator"),
             TextToken(<<"b">>), Token("ArgumentClose")>>
      [] text = <<"[", "[", "a", "|", "b", "]", "]">> ->
           <<Token("WikilinkOpen"), TextToken(<<"a">>), Token("WikilinkSeparator"),
             TextToken(<<"b">>), Token("WikilinkClose")>>
      [] text = <<"=", "a", "=">> ->
           <<HeadingStartToken(1), TextToken(<<"a">>), Token("HeadingEnd")>>
      [] text = <<"{", "{", "|", NL, "=", "=", "a", NL>> ->
           <<TextToken(<<"=", "=", "{", "{">>), Token("TemplateParamSeparator"),
             TextToken(<<"|", NL>>), TextToken(<<"=", "a", NL>>)>>
      [] text = <<"&">> -> <<>>
      [] text = <<"<", "!", "-", "-", "a">> -> <<TextToken(text)>>

\* an instance's call has ended, normally or not
EndedIn(inst) == inst.pc \in {"done", "fault"}

\* an instance's call returned what it returns when the instance runs alone
AsAlone(inst) ==
    /\ inst.pc = "done"
    /\ inst.results = <<[kind |-> "list", tokens |-> Alone(inst.self.text), level |-> 0]>>

C16_StackEmptyAtReturn == Done => self.topstack = <<>>

\* Tokenizer_parse returned to its caller with the route failed
FailedReturn == pc = "return" /\ route_state = 1

\* C17: when a Tokenizer_parse call ends in a route failure, its caller finds
\* the frame stack that existed just before the call: the frames made inside
\* the call are gone and the enclosing frames are as they were.
C17_FailedRouteRestoresStack == FailedReturn => self.topstack = entry[Len(entry)]

\* the construct parsers that call Tokenizer_parse and return to the loop
ConstructParsers ==
    {"parse_argument", "parse_template", "parse_wikilink", "parse_heading", "parse_comment"}

\* depth of the frame stack when the construct parser of the innermost call
\* was called: parse_template_or_argument pushes a frame of its own first
DepthAtCall ==
    Len(entry[Len(entry)])
        - (IF Last(calls).fn \in {"parse_argument", "parse_template"} THEN 1 ELSE 0)

\* the construct parser of the innermost call returns to the dispatch loop
BackInLoop ==
    /\ pc = "return" /\ pc' = "loop"
    /\ Last(calls).fn \in ConstructParsers
    /\ Len(calls') < Len(calls)

\* C18: no operation reads or writes the top frame of an empty stack, and when
\* a construct parser returns to the dispatch loop the stack is as deep as
\* when the parser was called, so the frame then on top is on top again.
C18_TopFrameKept ==
    /\ [](fault # "null_topstack")
    /\ [][BackInLoop => Len(self'.topstack) = DepthAtCall]_vars

\* text starts with a run of exactly n opening braces and holds no other one
RunOnly(text, n) ==
    /\ n \in 2..Len(text)
    /\ \A i \in 1..Len(text) : (text[i] = "{") <=> (i <= n)

\* the tokens of a frame, its text not yet flushed as a last Text
FrameTokens(frame) ==
    frame.stack \o (IF TextbufferIsEmpty(frame.textbuffer) THEN <<>>
                    ELSE <<TextToken(Textbuffer_render(frame.textbuffer))>>)

CountOf(tokens, type) == Cardinality({i \in DOMAIN tokens : tokens[i].type = type})

\* number of "{" in the Text tokens
LiteralBraces(tokens) ==
    Cardinality(UNION {{<<i, j>> : j \in {k \in DOMAIN tokens[i].text : tokens[i].text[k] = "{"}} :
                         i \in DOMAIN tokens})

\* no "{" as text after an ArgumentOpen or a TemplateOpen
LiteralBracesFirst(tokens) ==
    \A i \in DOMAIN tokens : \A j \in DOMAIN tokens :
        (i < j /\ tokens[i].type \in {"ArgumentOpen", "TemplateOpen"}) =>
            \A k \in DOMAIN tokens[j].text : tokens[j].text[k] # "{"

\* parse_template_or_argument, called from the top-level loop, returns to it
BraceRunParsed ==
    /\ BackInLoop
    /\ Last(calls).fn \in {"parse_argument", "parse_template"}
    /\ Len(calls') = 1

\* C19: when parse_template_or_argument returns from a run of n >= 2 opening
\* braces, the frame it pushed is gone and its tokens are in the parent, where
\* 3 x ArgumentOpen + 2 x TemplateOpen + literal "{" = n and the literal "{"
\* stand before the constructs.
C19_BraceAccounting ==
    [][\A n \in 2..Len(self.text) :
          (BraceRunParsed /\ RunOnly(self.text, n)) =>
              /\ Len(self'.topstack) = 1
              /\ LET tokens == FrameTokens(self'.topstack[1]) IN
                   /\ 3 * CountOf(tokens, "ArgumentOpen") + 2 * CountOf(tokens, "TemplateOpen")
                          + LiteralBraces(tokens) = n
                   /\ LiteralBracesFirst(tokens)]_vars

\* Tokenizer_parse returned a heading to parse_heading whose level is below
\* the length of the opening run
ShorterHeadingParsed ==
    /\ Returned("parse_heading")
    /\ route_state = 0
    /\ ret.kind = "heading"
    /\ ret.level < Last(calls).count

\* the frame that was on top when parse_heading was called, after it received
\* the excess "=" as text, HeadingStart, the title and HeadingEnd
HeadingWritten(frame, excess, heading) ==
    [frame EXCEPT
        !.stack = @ \o <<TextToken(Textbuffer_render(frame.textbuffer) \o Run("=", excess)),
                          HeadingStartToken(heading.level)>>
                    \o heading.tokens \o <<Token("HeadingEnd")>>,
        !.textbuffer = Textbuffer_new]

\* C20: when parse_heading succeeds with a level below the length of the
\* opening run, the frame that was on top when it was called receives, in this
\* order, the excess "=" as text, HeadingStart(level), the title, HeadingEnd.
C20_ShorterHeading ==
    [][ShorterHeadingParsed =>
          LET before == entry[Len(entry)] IN
          /\ before # <<>>
          /\ self'.topstack =
                 <<HeadingWritten(Head(before), Last(calls).count - ret.level, ret)>>
                     \o Tail(before)]_vars

\* adjacent Text tokens joined into one
RECURSIVE MergeText(_)
MergeText(tokens) ==
    IF Len(tokens) < 2 THEN tokens
    ELSE IF tokens[1].type = "Text" /\ tokens[2].type = "Text"
         THEN MergeText(<<TextToken(tokens[1].text \o tokens[2].text)>>
                            \o SubSeq(tokens, 3, Len(tokens)))
         ELSE <<tokens[1]>> \o MergeText(Tail(tokens))

\* the parse continued by handle_heading_end found a later closing run
LaterCloseFound ==
    /\ Returned("handle_heading_end")
    /\ route_state = 0
    /\ ret.kind = "heading"

\* C21: when the parse continued by handle_heading_end succeeds, the heading
\* returned has the level of the later close, and its title is the tokens of
\* the heading's own frame, then the current run of "=" as text, then the
\* later tokens; only the heading's own frame is taken from the stack.
C21_LaterClose ==
    [][LaterCloseFound =>
          LET before == entry[Len(entry)] IN
          /\ before # <<>>
          /\ pc' = "return"
          /\ ret'.kind = "heading"
          /\ ret'.level = ret.level
          /\ MergeText(ret'.tokens) =
                 MergeText(FrameTokens(Head(before))
                               \o <<TextToken(Run("=", Last(calls).count))>>
                               \o ret.tokens)
          /\ self'.topstack = Tail(before)]_vars

\* the calls of parse_heading that have not returned
HeadingCalls == {i \in DOMAIN calls : calls[i].fn = "parse_heading"}

\* between two HeadingStart of a token list stands a HeadingEnd
NoHeadingInHeading(tokens) ==
    \A i \in DOMAIN tokens : \A j \in DOMAIN tokens :
        (i < j /\ tokens[i].type = "HeadingStart" /\ tokens[j].type = "HeadingStart") =>
            \E k \in (i + 1)..(j - 1) : tokens[k].type = "HeadingEnd"

NameBreakers == {"{", "}", "[", "]"}

\* from token i on, at nesting depth 0 and before the separator or close that
\* ends the name or title, stands a Text with one of NameBreakers
RECURSIVE BrokenName(_, _, _)
BrokenName(tokens, i, depth) ==
    IF i > Len(tokens) THEN FALSE
    ELSE LET type == tokens[i].type IN
         IF type \in Openers THEN BrokenName(tokens, i + 1, depth + 1)
         ELSE IF type \in Closers
         THEN depth > 0 /\ BrokenName(tokens, i + 1, depth - 1)
         ELSE IF depth = 0 /\ type \in {"TemplateParamSeparator", "WikilinkSeparator"}
         THEN FALSE
         ELSE IF depth = 0 /\ type = "Text"
                 /\ \E k \in DOMAIN tokens[i].text : tokens[i].text[k] \in NameBreakers
         THEN TRUE
         ELSE BrokenName(tokens, i + 1, depth)

\* C23: a frame of a template name or wikilink title in which FAIL_NEXT is set
\* fails its route at the next character read in it, and no template name and
\* no wikilink title of the output holds "{", "}", "[" or "]" as text.
C23_NameWithoutBraces ==
    /\ (/\ pc = "loop" /\ self.topstack # <<>>
        /\ Has(TopContext(Machine), LC_TEMPLATE_NAME \cup LC_WIKILINK_TITLE)
        /\ Has(TopContext(Machine), LC_FAIL_NEXT)) => VerifyFailed(Machine)
    /\ Done => \A i \in DOMAIN Out :
                   Out[i].type \in {"TemplateOpen", "WikilinkOpen"} =>
                       ~BrokenName(Out, i + 1, 0)

\* the construct opened at the start of the text failed: its opening braces
\* came back as text
OuterRouteFailed == Done /\ Out # <<>> /\ Out[1].type = "Text"

SecondBraceRead(ch, flag) ==
    /\ pc = "loop" /\ self.topstack # <<>>
    /\ Has(TopContext(Machine), LC_TEMPLATE_PARAM_KEY \cup LC_ARGUMENT_NAME)
    /\ ~Has(TopContext(Machine), LC_FAIL_NEXT)
    /\ Has(TopContext(Machine), flag)
    /\ Tokenizer_read(Machine, 0) = ch
    /\ Tokenizer_read(Machine, 1) # ch

UnsafeRead ==
    /\ pc = "loop" /\ self.topstack # <<>>
    /\ Has(TopContext(Machine), unsafe_contexts)
    /\ ~Has(TopContext(Machine), LC_FAIL_NEXT)

\* C25: in a frame of a template name, wikilink title, parameter key or
\* argument name that has seen text and then a newline (HAS_TEXT and
\* FAIL_ON_TEXT), the next character that is not whitespace fails the route,
\* whatever it is; whitespace does not; and a newline that comes before any
\* text of the name, title or key does not make the route fail.
C25_TextAfterNewline ==
    /\ (/\ UnsafeRead
        /\ Has(TopContext(Machine), LC_HAS_TEXT)
        /\ Has(TopContext(Machine), LC_FAIL_ON_TEXT)
        /\ ~Py_UNICODE_ISSPACE(Tokenizer_read(Machine, 0))) => VerifyFailed(Machine)
    /\ (UnsafeRead /\ Py_UNICODE_ISSPACE(Tokenizer_read(Machine, 0))) =>
           ~VerifyFailed(Machine)
    /\ \A c \in NewlineFirstCases : (Ended /\ self.text = c.text) => (Done /\ Out = c.tokens)

\* C26: the step of the dispatch loop that handles "&" leaves the frames as
\* they were except that the "&" is written as text at the end of the pending
\* text of the frame on top (no entity is valid for Tokenizer_really_parse_entity,
\* so every "&" is the literal one): the sub-frame is gone, no token is flushed
\* before the "&", and the loop goes on after it.
C26_EntityLiteral ==
    [][At("entity") =>
          /\ pc' = "loop"
          /\ self'.head = self.head + 1
          /\ Len(self'.topstack) = Len(self.topstack)
          /\ Tail(self'.topstack) = Tail(self.topstack)
          /\ Head(self'.topstack).stack = Head(self.topstack).stack
          /\ Textbuffer_render(Head(self'.topstack).textbuffer) =
                 Textbuffer_render(Head(self.topstack).textbuffer) \o <<"&">>]_vars

\* a failed route is back in the construct parser that started it, and the
\* parser falls back to the dispatch loop
FallbackStep ==
    /\ BackInLoop
    /\ route_state = 1

\* the characters of the opening delimiter of the innermost call
Delimiter ==
    CASE Last(calls).fn = "parse_template" -> Run("{", Last(calls).count)
      [] Last(calls).fn = "parse_wikilink" -> <<"[", "[">>
      [] Last(calls).fn = "parse_heading" -> Run("=", Last(calls).count)
      [] Last(calls).fn = "parse_comment" -> <<"<", "!", "-", "-">>

\* the position of the first character after the opening delimiter
AfterDelimiter ==
    CASE Last(calls).fn = "parse_template" -> Last(calls).reset
      [] Last(calls).fn = "parse_wikilink" -> Last(calls).reset + 1
      [] Last(calls).fn = "parse_heading" -> Last(calls).reset + Last(calls).count
      [] Last(calls).fn = "parse_comment" -> Last(calls).reset + 1

\* the frames found when the attempt started and the tokens that
\* parse_template_or_argument holds in its own frame for the same run of braces
AttemptStart ==
    LET before == entry[Len(entry)] IN
    IF Last(calls).fn = "parse_template"
    THEN [frames |-> Tail(before), held |-> FrameTokens(Head(before))]
    ELSE [frames |-> before, held |-> <<>>]

\* C27: when a failed route falls back to the dispatch loop, the failure is
\* cleared, the opening delimiter is written once as text at the end of the
\* frame that was on top when the attempt started (followed by what
\* parse_template_or_argument had already parsed of the same run of braces),
\* the frames below are untouched, and the loop resumes at the first character
\* after the delimiter.
C27_LiteralFallback ==
    [][FallbackStep =>
          /\ route_state' = 0
          /\ self'.head = AfterDelimiter
          /\ AttemptStart.frames # <<>>
          /\ self'.topstack # <<>>
          /\ MergeText(FrameTokens(Head(self'.topstack))) =
                 MergeText(FrameTokens(Head(AttemptStart.frames))
                               \o <<TextToken(Delimiter)>> \o AttemptStart.held)
          /\ Tail(self'.topstack) = Tail(AttemptStart.frames)]_vars

\* a tokenizer with one new frame and nothing else
OneFrame ==
    Tokenizer_push([self |-> [self EXCEPT !.topstack = <<>>],
                    route_state |-> 0, fault |-> "none"], {})

\* the textbuffer of a new frame after write_text of each character of text
Written(text) == Top(WriteChars(OneFrame, text)).textbuffer

\* C28: Textbuffer_render gives the characters written by write_text since the
\* textbuffer was new, in the order written, over any number of chunks: for
\* every prefix of the input written to a new frame, and for every character
\* that the dispatch loop writes as text to the frame on top, whose tokens it
\* leaves alone; and a textbuffer counts as empty exactly when it renders no
\* character.
C28_RenderInOrder ==
    /\ [](\A n \in 0..Len(self.text) :
            LET text == SubSeq(self.text, 1, n) IN
            /\ Textbuffer_render(Written(text)) = text
            /\ TextbufferIsEmpty(Written(text)) <=> n = 0)
    /\ [](\A i \in DOMAIN self.topstack :
            TextbufferIsEmpty(self.topstack[i].textbuffer)
                <=> Textbuffer_render(self.topstack[i].textbuffer) = <<>>)
    /\ [][At("literal") =>
            /\ pc' = "loop"
            /\ Len(self'.topstack) = Len(self.topstack)
            /\ Head(self'.topstack).stack = Head(self.topstack).stack
            /\ Textbuffer_render(Head(self'.topstack).textbuffer) =
                   Textbuffer_render(Head(self.topstack).textbuffer)
                       \o <<Tokenizer_read(Machine, 0)>>]_vars

\* a position not before the one at which the dispatch loop called the
\* construct parser of the innermost call: the first character of its opening
\* delimiter, or for a run of braces partly parsed the first brace still open
DispatchedAt ==
    CASE Last(calls).fn \in {"parse_argument", "parse_template"} ->
             Last(calls).reset - Last(calls).count
      [] Last(calls).fn = "parse_wikilink" -> Last(calls).reset - 1
      [] Last(calls).fn = "parse_heading" -> Last(calls).reset
      [] Last(calls).fn = "parse_comment" -> Last(calls).reset - 3

\* C29: every iteration of the dispatch loop that does not return ends with
\* head greater than at its start: an iteration that handles the character
\* itself, and one that calls a construct parser, whether the parser's route
\* succeeded or failed and fell back to literal text.
C29_HeadAdvances ==
    /\ [][(pc = "loop" /\ pc' = "loop" /\ calls' = calls) => self'.head > self.head]_vars
    /\ [][BackInLoop => self'.head > DispatchedAt]_vars

-----------------------------------------------------------------------------
(* Witnesses *)

\* C5: a Text made by write_all from a pending "{{" and the first token of
\* a spliced list
C5_Witness ==
    /\ Done
    /\ Len(Out) > 0
    /\ Out[1] = TextToken(<<"{", "{", "a">>)
    /\ self.text = <<"{", "{", "a", "|", "b", NL, "c">>

\* C6: the output for a run of five braces is returned
C6_Witness ==
    /\ Done
    /\ self.text = Braces(5)
    /\ Len(Out) = 5
    /\ Out[1].type = "TemplateOpen"
    /\ Out[2].type = "ArgumentOpen"

\* C7: the output for a text with a heading line opened by 7 and closed by 6
\* "=" has a HeadingStart of level 6
C7_Witness ==
    /\ Done
    /\ \E token \in Range(Out) : token.type = "HeadingStart" /\ token.level = 6
    /\ self.text = <<"{", "{", "|", NL>> \o Run("=", 7) \o <<"a">> \o Run("=", 6)

\* C8: a template with a keyed and a positional parameter was tokenized
C8_Witness ==
    /\ Done
    /\ self.text = <<"{", "{", "a", "|", "b", " ", "c", "=", "a", "|", "a", "}", "}">>
    /\ Len(Out) = 9
    /\ Out[5].type = "TemplateParamEquals"
    /\ Out[7].type = "TemplateParamSeparator"

C10_Witness ==
    /\ Done
    /\ self.text = Braces(4)
    /\ Len(Out) = 5
    /\ Out[2].type = "ArgumentOpen"

\* C11: the output for [[a|b c|a]] followed by a third "]" is returned
C11_Witness ==
    /\ Done
    /\ self.text = <<"[", "[", "a", "|", "b", " ", "c", "|", "a", "]", "]", "]">>
    /\ Len(Out) = 6
    /\ Out[4] = TextToken(<<"b", " ", "c", "|", "a">>)
    /\ Out[6] = TextToken(<<"]">>)

C28_Witness ==
    /\ pc = "loop"
    /\ self.topstack # <<>>
    /\ Len(Head(self.topstack).textbuffer) = 3
    /\ Len(Textbuffer_render(Head(self.topstack).textbuffer)) = 2 * TEXTBUFFER_BLOCKSIZE + 1

====
